---- MODULE Spec2Model ----
(***************************************************************************)
(* EuMech Turtle Viewer, ASCII mode (eumech_turtle_ascii.py).              *)
(*                                                                         *)
(* One invocation of main(): load_trace reads a JSON document into a list  *)
(* of states, ascii_run computes the surface geometry and the world        *)
(* bounds, then walks the states, projecting each sampled state onto the   *)
(* character grid, marking the trail and (in animated mode) drawing a      *)
(* frame and sleeping.                                                     *)
(*                                                                         *)
(* Numbers.  A Python number is the record [t, k, s, m, x]: t is "int" or  *)
(* "float", k is "fin", "inf" or "nan", and a finite number has the value  *)
(* s * m * 2^x with s its sign and m an odd natural number (zero has       *)
(* s = 0).  An int is exact and unbounded.  A float is an IEEE-754 double: *)
(* every operation rounds its exact result to 53 bits, ties to even, with  *)
(* gradual underflow down to 2^-1074 and overflow to infinity.  The sign   *)
(* of a zero is not kept.  An exception raised by an operation is the      *)
(* value [t |-> "exc", v |-> its class], which every later operation       *)
(* passes on.                                                              *)
(***************************************************************************)
EXTENDS Integers, Sequences, FiniteSets, TLC

\* ------------------------------------------------------------------------
\* Natural numbers of any size: little-endian sequences of limbs below Base,
\* without high zero limbs; <<>> is zero.  They carry the significands of
\* the doubles and the magnitudes of Python's unbounded ints.
\* ------------------------------------------------------------------------
Base == 32768

LimbBits == 15

\* 2^k for k in 0..15
Pow2(k) == <<1, 2, 4, 8, 16, 32, 64, 128, 256, 512, 1024, 2048, 4096, 8192,
             16384, 32768>>[k + 1]

Max(a, b) == IF a < b THEN b ELSE a

Zeros(n) == [i \in 1..n |-> 0]

\* a without its high zero limbs
BTrim(a) ==
    IF \A i \in 1..Len(a) : a[i] = 0 THEN <<>>
    ELSE SubSeq(a, 1, CHOOSE i \in 1..Len(a) : a[i] # 0 /\ \A j \in (i + 1)..Len(a) : a[j] = 0)

\* -1, 0, 1 as a is below, equal to, above b
BCmp(a, b) ==
    IF Len(a) # Len(b) THEN (IF Len(a) < Len(b) THEN -1 ELSE 1)
    ELSE IF a = b THEN 0
    ELSE LET i == CHOOSE h \in 1..Len(a) : a[h] # b[h] /\ \A j \in (h + 1)..Len(a) : a[j] = b[j]
         IN  IF a[i] < b[i] THEN -1 ELSE 1

\* Limb i of a, zero beyond its length
Limb(a, i) == IF i <= Len(a) THEN a[i] ELSE 0

\* The carry into limb i of a + b: some lower limb overflows and every limb
\* between passes the carry on.
CarryInto(a, b, i) ==
    IF \E j \in 1..(i - 1) :
          /\ Limb(a, j) + Limb(b, j) >= Base
          /\ \A h \in (j + 1)..(i - 1) : Limb(a, h) + Limb(b, h) = Base - 1
    THEN 1 ELSE 0

BAdd(a, b) ==
    BTrim([i \in 1..(Max(Len(a), Len(b)) + 1) |->
             (Limb(a, i) + Limb(b, i) + CarryInto(a, b, i)) % Base])

\* The borrow from limb i of a - b
BorrowFrom(a, b, i) ==
    IF \E j \in 1..(i - 1) :
          /\ a[j] < Limb(b, j)
          /\ \A h \in (j + 1)..(i - 1) : a[h] = Limb(b, h)
    THEN 1 ELSE 0

\* a - b for a >= b
BSub(a, b) ==
    BTrim([i \in 1..Len(a) |-> (a[i] - Limb(b, i) - BorrowFrom(a, b, i) + Base) % Base])

\* a * k for 0 <= k <= Base: the low halves of the limb products plus the
\* high halves one limb up
BMulSmall(a, k) ==
    IF k = 0 THEN <<>>
    ELSE BAdd([i \in 1..Len(a) |-> (a[i] * k) % Base],
              <<0>> \o [i \in 1..Len(a) |-> (a[i] * k) \div Base])

\* a * b, by halves of b
RECURSIVE BMul(_, _)
BMul(a, b) ==
    IF a = <<>> \/ b = <<>> THEN <<>>
    ELSE IF Len(b) = 1 THEN BMulSmall(a, b[1])
    ELSE BAdd(BMul(a, SubSeq(b, 1, Len(b) \div 2)),
              Zeros(Len(b) \div 2) \o BMul(a, SubSeq(b, Len(b) \div 2 + 1, Len(b))))

\* a * 2^n
BShl(a, n) ==
    IF a = <<>> \/ n = 0 THEN a
    ELSE Zeros(n \div LimbBits) \o BMulSmall(a, Pow2(n % LimbBits))

\* floor(a / 2^n)
BShr(a, n) ==
    IF n = 0 THEN a
    ELSE IF n \div LimbBits >= Len(a) THEN <<>>
    ELSE LET r == SubSeq(a, n \div LimbBits + 1, Len(a))
             p == Pow2(n % LimbBits)
         IN  IF p = 1 THEN r
             ELSE BTrim([i \in 1..Len(r) |->
                          r[i] \div p
                          + (IF i < Len(r) THEN (r[i + 1] % p) * (Base \div p) ELSE 0)])

\* a mod 2^n is not zero
LowNonzero(a, n) ==
    \/ \E i \in 1..Len(a) : i <= n \div LimbBits /\ a[i] # 0
    \/ n \div LimbBits < Len(a) /\ a[n \div LimbBits + 1] % Pow2(n % LimbBits) # 0

\* bit i of a (bit 0 is the lowest)
BitAt(a, i) ==
    IF i < 0 \/ i \div LimbBits >= Len(a) THEN 0
    ELSE (a[i \div LimbBits + 1] \div Pow2(i % LimbBits)) % 2

\* number of bits of a, 0 for zero
BitLen(a) ==
    IF a = <<>> THEN 0
    ELSE LimbBits * (Len(a) - 1)
         + (CHOOSE k \in 1..LimbBits : Pow2(k - 1) <= a[Len(a)] /\ a[Len(a)] < Pow2(k))

\* number of low zero bits of a nonzero a
TrailingZeros(a) ==
    LET i == CHOOSE j \in 1..Len(a) : a[j] # 0 /\ \A h \in 1..(j - 1) : a[h] = 0
    IN  LimbBits * (i - 1)
        + (CHOOSE k \in 0..(LimbBits - 1) : a[i] % Pow2(k + 1) # 0 /\ a[i] % Pow2(k) = 0)

\* The quotient limbs of a lower range put under those of the range above
Joined(low, high) == [q |-> low.q \o high.q, r |-> low.r]

\* Division by one limb d over the limbs lo..hi of a, from the top down; r
\* is the remainder carried in from above.  The upper half is divided
\* first and its remainder h.r is carried into the lower half.
RECURSIVE BDivSmallAt(_, _, _, _, _)
BDivSmallAt(a, d, lo, hi, r) ==
    IF lo > hi THEN [q |-> <<>>, r |-> r]
    ELSE IF lo = hi
    THEN [q |-> <<(r * Base + a[lo]) \div d>>, r |-> (r * Base + a[lo]) % d]
    ELSE CHOOSE res \in {Joined(BDivSmallAt(a, d, lo, (lo + hi) \div 2, h.r), h) :
                           h \in {BDivSmallAt(a, d, (lo + hi) \div 2 + 1, hi, r)}} : TRUE

RECURSIVE QuotientDigit(_, _, _)
QuotientDigit(r, d, q) == IF BCmp(BMulSmall(d, q), r) > 0 THEN QuotientDigit(r, d, q - 1) ELSE q

\* The limbs of cur at positions n + 1 and n, as one number
TopLimbs(cur, n) ==
    (IF Len(cur) > n THEN cur[n + 1] * Base ELSE 0) + (IF Len(cur) >= n THEN cur[n] ELSE 0)

\* First guess of a quotient limb from the top limbs t of the remainder and
\* the top limb of the divisor; it is never below the limb.
Estimate(t, top) == IF t \div top > Base - 1 THEN Base - 1 ELSE t \div top

\* The quotient limb qd and the remainder it leaves of cur
BDivLimb(d, cur, qd) == [q |-> <<qd>>, r |-> BSub(cur, BMulSmall(d, qd))]

\* One step of long division on the remainder cur
BDivOne(d, cur) ==
    BDivLimb(d, cur, QuotientDigit(cur, d, Estimate(TopLimbs(cur, Len(d)), d[Len(d)])))

\* Long division by a divisor d of several limbs whose top limb is at least
\* Base/2, over the limbs lo..hi of a from the top down: each limb is
\* brought under the remainder r carried in from above.
RECURSIVE BDivLongAt(_, _, _, _, _)
BDivLongAt(a, d, lo, hi, r) ==
    IF lo > hi THEN [q |-> <<>>, r |-> r]
    ELSE IF lo = hi THEN BDivOne(d, BTrim(<<a[lo]>> \o r))
    ELSE CHOOSE res \in {Joined(BDivLongAt(a, d, lo, (lo + hi) \div 2, h.r), h) :
                           h \in {BDivLongAt(a, d, (lo + hi) \div 2 + 1, hi, r)}} : TRUE

BDivLong(a, d) == BDivLongAt(a, d, 1, Len(a), <<>>)

\* Both operands shifted so that the top limb of d is at least Base/2
BDivShifted(a, d, sh) == BDivLong(BShl(a, sh), BShl(d, sh))

BDivSmall(r) == [q |-> BTrim(r.q), rem |-> r.r # 0]

BDivLarge(r) == [q |-> BTrim(r.q), rem |-> r.r # <<>>]

\* floor(a / d) and whether a remainder is left, d nonzero
BDivMod(a, d) ==
    IF Len(d) = 1 THEN BDivSmall(BDivSmallAt(a, d[1], 1, Len(a), 0))
    ELSE BDivLarge(BDivShifted(a, d, LimbBits - (BitLen(d) - LimbBits * (Len(d) - 1))))

\* ------------------------------------------------------------------------
\* Numbers.  A Python number is the record [t, k, s, m, x]: t is "int" or
\* "float", k is "fin", "inf" or "nan", and a finite number is s * m * 2^x
\* with sign s in {-1, 0, 1} and m odd (zero: s = 0, m = <<>>, x = 0).  An
\* int is exact and unbounded.  A float is an IEEE-754 double: every
\* operation computes the exact result and rounds it to 53 bits, to nearest
\* with ties to even, with gradual underflow at 2^-1074 and overflow to
\* infinity above 2^1024.  The sign of a zero is not kept: no operation of
\* the program tells -0.0 from 0.0.  An operation that raises returns the
\* exception as [t |-> "exc", v |-> name], and an operand that is an
\* exception is passed on.
\* ------------------------------------------------------------------------
Precision == 53

MinExp == -1074

MaxTop == 1023

Mk(t, k, s, m, x) == [t |-> t, k |-> k, s |-> s, m |-> m, x |-> x]

FZero == Mk("float", "fin", 0, <<>>, 0)

Inf(s) == Mk("float", "inf", s, <<>>, 0)

NaN == Mk("float", "nan", 0, <<>>, 0)

Exc(name) == [t |-> "exc", v |-> name]

IsExc(a) == a.t = "exc"

IsNumber(a) == a.t \in {"int", "float"}

\* s * m * 2^x with the z low zero bits of m moved into the exponent
Shifted(t, s, m, x, z) == Mk(t, "fin", s, BShr(m, z), x + z)

\* s * m * 2^x in normal form, m any natural
Canon(t, s, m, x) ==
    IF m = <<>> THEN Mk(t, "fin", 0, <<>>, 0)
    ELSE IF m[1] % 2 = 1 THEN Mk(t, "fin", s, m, x)
    ELSE Shifted(t, s, m, x, TrailingZeros(m))

Abs(i) == IF i < 0 THEN -i ELSE i

Sign(i) == IF i > 0 THEN 1 ELSE IF i < 0 THEN -1 ELSE 0

\* The limbs of a natural below 2^31.
Limbs(n) == BTrim(<<n % Base, (n \div Base) % Base, n \div (Base * Base)>>)

\* The Python int i
Integer(i) == Canon("int", Sign(i), Limbs(Abs(i)), 0)

\* The float i * 2^e
Scale2(i, e) == Canon("float", Sign(i), Limbs(Abs(i)), e)

\* The float i.0
Num(i) == Scale2(i, 0)

\* The double i * 2^100: a magnitude at which adding 1.0 is absorbed.
Big(i) == Scale2(i, 100)

\* The double i * 2^1023: the sum or difference of two of them overflows.
Huge(i) == Scale2(i, 1023)

\* m is rounded up at bit c >= 1: the bit below is set and the rest below,
\* the sticky bit or the bit at c (ties to even) is too.
RoundUp(m, c, sticky) ==
    /\ BitAt(m, c - 1) = 1
    /\ (sticky \/ LowNonzero(m, c - 1) \/ BitAt(m, c) = 1)

\* The double s * r * 2^e for r within 53 bits and e >= -1074
Rounded(s, r, e) ==
    IF r = <<>> THEN FZero
    ELSE IF e + BitLen(r) - 1 > MaxTop THEN Inf(s)
    ELSE Canon("float", s, r, e)

\* m with its c low bits rounded away
RoundAt(s, m, x, sticky, c) ==
    Rounded(s,
            IF c <= 0 THEN m
            ELSE BAdd(BShr(m, c), IF RoundUp(m, c, sticky) THEN <<1>> ELSE <<>>),
            IF c <= 0 THEN x ELSE x + c)

\* The double nearest to s * (m + f) * 2^x, where 0 <= f < 1 and f > 0
\* exactly when sticky.
Round(s, m, x, sticky) == RoundAt(s, m, x, sticky, Max(BitLen(m) - Precision, MinExp - x))

\* An int beyond the doubles does not convert.
IntToFloat(r) == IF r.k = "inf" THEN Exc("OverflowError") ELSE r

\* float(a) where the program mixes an int with a float
ToFloat(a) ==
    IF a.t = "float" THEN a
    ELSE IF a.t = "int" THEN IntToFloat(Round(a.s, a.m, a.x, FALSE))
    ELSE IF IsExc(a) THEN a
    ELSE Exc("TypeError")

\* The operands of a binary operation on numbers: two ints stay ints,
\* otherwise both are taken as floats.
Coerce(a, b) ==
    IF a.t = "int" /\ b.t = "int" THEN <<a, b>>
    ELSE [i \in 1..2 |-> ToFloat(<<a, b>>[i])]

\* An exact result <<sign, magnitude, exponent>> as a number of type t: an
\* int keeps it, a float rounds it.
Result(t, e) ==
    IF t = "int" THEN Canon("int", e[1], e[2], e[3])
    ELSE Round(e[1], e[2], e[3], FALSE)

\* sa * ma * 2^x + sb * mb * 2^x for nonzero operands
Aligned(sa, ma, sb, mb, x) ==
    IF sa = sb THEN <<sa, BAdd(ma, mb), x>>
    ELSE IF BCmp(ma, mb) = 0 THEN <<0, <<>>, 0>>
    ELSE IF BCmp(ma, mb) > 0 THEN <<sa, BSub(ma, mb), x>>
    ELSE <<sb, BSub(mb, ma), x>>

\* The exact sum of two finite nonzero numbers, as <<sign, magnitude,
\* exponent>>, x being the lower of the two exponents.
ExactSumAt(a, b, x) == Aligned(a.s, BShl(a.m, a.x - x), b.s, BShl(b.m, b.x - x), x)

ExactSum(a, b) == ExactSumAt(a, b, IF a.x < b.x THEN a.x ELSE b.x)

\* Position of the top bit of a finite nonzero number.
Top(a) == a.x + BitLen(a.m) - 1

\* a + b on two ints or two floats.  A float more than 64 binary places
\* below the other is under half an ulp of it, also next to a power of two.
Add(a, b) ==
    IF a.k = "nan" \/ b.k = "nan" THEN NaN
    ELSE IF a.k = "inf" THEN (IF b.k = "inf" /\ b.s # a.s THEN NaN ELSE a)
    ELSE IF b.k = "inf" THEN b
    ELSE IF a.s = 0 THEN b
    ELSE IF b.s = 0 THEN a
    ELSE IF a.t = "float" /\ Top(a) - Top(b) > 64 THEN a
    ELSE IF a.t = "float" /\ Top(b) - Top(a) > 64 THEN b
    ELSE Result(a.t, ExactSum(a, b))

Negated(a) == IF IsNumber(a) THEN [a EXCEPT !.s = -a.s] ELSE a

\* a * b on two ints or two floats
Mul(a, b) ==
    IF a.k = "nan" \/ b.k = "nan" THEN NaN
    ELSE IF a.k = "inf" \/ b.k = "inf"
         THEN (IF a.s = 0 \/ b.s = 0 THEN NaN ELSE Inf(a.s * b.s))
    ELSE IF a.s = 0 \/ b.s = 0 THEN Mk(a.t, "fin", 0, <<>>, 0)
    ELSE Result(a.t, <<a.s * b.s, BMul(a.m, b.m), a.x + b.x>>)

\* The quotient digits d rounded once, the remainder being the sticky bit
QuotientRounded(s, d, e) == Round(s, d.q, e, d.rem)

\* a / b with the dividend scaled by 2^k
QuotientAt(a, b, k) == QuotientRounded(a.s * b.s, BDivMod(BShl(a.m, k), b.m), a.x - b.x - k)

\* The quotient of two finite nonzero numbers, correctly rounded: at least
\* 55 bits of it are computed and the rest is kept as the sticky bit.
Quotient(a, b) == QuotientAt(a, b, Max(0, Precision + 2 + BitLen(b.m) - BitLen(a.m)))

\* int / int beyond the doubles raises; float / float gives an infinity.
QuotientOf(t, q) == IF t = "int" /\ q.k = "inf" THEN Exc("OverflowError") ELSE q

\* a / b on two ints or two floats (true division); Python raises on a zero
\* divisor.  Two ints are divided exactly and rounded once.
Div(a, b) ==
    IF b.k = "fin" /\ b.s = 0 THEN Exc("ZeroDivisionError")
    ELSE IF a.k = "nan" \/ b.k = "nan" THEN NaN
    ELSE IF a.k = "inf" THEN (IF b.k = "inf" THEN NaN ELSE Inf(a.s * b.s))
    ELSE IF b.k = "inf" \/ a.s = 0 THEN FZero
    ELSE QuotientOf(a.t, Quotient(a, b))

\* The first operand that failed to convert, or "none"
Failed(p) == IF IsExc(p[1]) THEN p[1] ELSE IF IsExc(p[2]) THEN p[2] ELSE Exc("none")

AddCoerced(p) == IF Failed(p).v # "none" THEN Failed(p) ELSE Add(p[1], p[2])

MulCoerced(p) == IF Failed(p).v # "none" THEN Failed(p) ELSE Mul(p[1], p[2])

DivCoerced(p) == IF Failed(p).v # "none" THEN Failed(p) ELSE Div(p[1], p[2])

\* a + b.  Two ints add exactly; strings and lists concatenate.
FAdd(a, b) ==
    IF IsExc(a) THEN a
    ELSE IF IsExc(b) THEN b
    ELSE IF IsNumber(a) /\ IsNumber(b) THEN AddCoerced(Coerce(a, b))
    ELSE IF a.t = b.t /\ a.t \in {"str", "list"} THEN [t |-> a.t, v |-> a.v \o b.v]
    ELSE Exc("TypeError")

\* a - b
FSub(a, b) ==
    IF IsExc(a) THEN a
    ELSE IF IsExc(b) THEN b
    ELSE IF IsNumber(a) /\ IsNumber(b) THEN FAdd(a, Negated(b))
    ELSE Exc("TypeError")

\* a * b, one of the operands being a number wherever the program
\* multiplies.
FMul(a, b) ==
    IF IsExc(a) THEN a
    ELSE IF IsExc(b) THEN b
    ELSE IF IsNumber(a) /\ IsNumber(b) THEN MulCoerced(Coerce(a, b))
    ELSE Exc("TypeError")

\* a / b (true division)
FDiv(a, b) ==
    IF IsExc(a) THEN a
    ELSE IF IsExc(b) THEN b
    ELSE IF IsNumber(a) /\ IsNumber(b) THEN DivCoerced(Coerce(a, b))
    ELSE Exc("TypeError")

\* -1, 0, 1 as |a| is below, equal to, above |b| for finite nonzero a, b
\* with top bits at the same place, x being the lower of the two exponents
MagCmpAt(a, b, x) == BCmp(BShl(a.m, a.x - x), BShl(b.m, b.x - x))

MagCmpTop(a, b, ta, tb) ==
    IF ta # tb THEN (IF ta < tb THEN -1 ELSE 1)
    ELSE MagCmpAt(a, b, IF a.x < b.x THEN a.x ELSE b.x)

\* -1, 0, 1 as |a| is below, equal to, above |b|; a and b nonzero, not nan
MagCmp(a, b) ==
    IF a.k = "inf" \/ b.k = "inf"
    THEN (IF a.k = b.k THEN 0 ELSE IF a.k = "inf" THEN 1 ELSE -1)
    ELSE MagCmpTop(a, b, Top(a), Top(b))

\* a < b on numbers; false when either is nan
FLess(a, b) ==
    IF a.k = "nan" \/ b.k = "nan" THEN FALSE
    ELSE IF a.s # b.s THEN a.s < b.s
    ELSE IF a.s = 0 THEN FALSE
    ELSE a.s * MagCmp(a, b) < 0

\* a == b on numbers; nan equals nothing, and 1 == 1.0
FEq(a, b) ==
    /\ a.k # "nan"
    /\ b.k # "nan"
    /\ a.k = b.k /\ a.s = b.s /\ a.m = b.m /\ a.x = b.x

\* int(a): truncation toward zero; raises on nan and on an infinity.
FInt(a) ==
    IF IsExc(a) THEN a
    ELSE IF a.t = "int" THEN a
    ELSE IF a.t # "float" THEN Exc("TypeError")
    ELSE IF a.k = "nan" THEN Exc("ValueError")
    ELSE IF a.k = "inf" THEN Exc("OverflowError")
    ELSE IF a.x >= 0 THEN [a EXCEPT !.t = "int"]
    ELSE Canon("int", a.s, BShr(a.m, -a.x), 0)

\* The TLA+ integer of a Python int below 2^30 in magnitude.
IntValue(a) ==
    IF a.s = 0 THEN 0
    ELSE a.s * (a.m[1] + (IF Len(a.m) > 1 THEN a.m[2] * Base ELSE 0))
             * (IF a.x <= LimbBits THEN Pow2(a.x) ELSE Pow2(LimbBits) * Pow2(a.x - LimbBits))

\* min(xs): the first item no later item is less than, as Python folds it.
RECURSIVE FMinFrom(_, _, _)
FMinFrom(s, i, cur) ==
    IF i > Len(s) THEN cur
    ELSE FMinFrom(s, i + 1, IF FLess(s[i], cur) THEN s[i] ELSE cur)

FMinSeq(s) == FMinFrom(s, 2, s[1])

\* max(xs)
RECURSIVE FMaxFrom(_, _, _)
FMaxFrom(s, i, cur) ==
    IF i > Len(s) THEN cur
    ELSE FMaxFrom(s, i + 1, IF FLess(cur, s[i]) THEN s[i] ELSE cur)

FMaxSeq(s) == FMaxFrom(s, 2, s[1])

\* ------------------------------------------------------------------------
\* JSON values as json.load returns them.  A number is as above; a string
\* is [t |-> "str", v |-> its characters]; null is [t |-> "null"]; a list
\* is [t |-> "list", v |-> <<...>>]; an object is [t |-> "dict", o |-> its
\* distinct keys in document order, v |-> the function from its keys to
\* its values], a key being the sequence of its characters.  The step of a
\* record is held as a TLA+ integer.  JSON true and false are not modelled.
\* ------------------------------------------------------------------------
Text(chars) == [t |-> "str", v |-> chars]

\* A JSON string where a number is expected.
Str == Text(<<"s">>)

Null == [t |-> "null"]

List(s) == [t |-> "list", v |-> s]

\* The object of the keys o, in document order, with the values vals in
\* the same order.
Dict(o, vals) ==
    [t |-> "dict", o |-> o,
     v |-> [k \in {o[i] : i \in DOMAIN o} |-> vals[CHOOSE i \in DOMAIN o : o[i] = k]]]

\* The keys the loader names.
KeyStates == <<"s", "t", "a", "t", "e", "s">>

KeyTriangles == <<"t", "r", "i", "a", "n", "g", "l", "e", "s">>

KeyCoords == <<"c", "o", "o", "r", "d", "s">>

KeyStep == <<"s", "t", "e", "p">>

IsList(a) == a.t = "list"

IsDict(a) == a.t = "dict"

\* iter(v) does not raise
IsIterable(v) == v.t \in {"list", "str", "dict"}

\* The items a for loop over v visits: the elements of a list, the
\* characters of a string, the keys of an object.
Items(v) ==
    IF IsList(v) THEN v.v
    ELSE IF v.t = "str" THEN [i \in 1..Len(v.v) |-> Text(<<v.v[i]>>)]
    ELSE [i \in 1..Len(v.o) |-> Text(v.o[i])]

\* key in s, for an s that supports the test: a key of an object, a
\* substring of a string, an element of a list.
In(key, s) ==
    IF IsDict(s) THEN key \in DOMAIN s.v
    ELSE IF IsList(s) THEN \E i \in 1..Len(s.v) : s.v[i] = Text(key)
    ELSE \E i \in 0..(Len(s.v) - Len(key)) : SubSeq(s.v, i + 1, i + Len(key)) = key

Min(S) == CHOOSE m \in S : \A k \in S : m <= k

Failure(msg, at) == [ok |-> FALSE, states |-> <<>>, err |-> msg, at |-> at]

Success(sts) == [ok |-> TRUE, states |-> sts, err |-> "none", at |-> -1]

\* ------------------------------------------------------------------------
\* load_trace
\* ------------------------------------------------------------------------
\* A value divided by 3.0.
DivideByThree(a) == FDiv(a, Num(3))

\* (x1 + x2 + x3) / 3.0 and (y1 + y2 + y3) / 3.0 over coords[:6]; k is 1 for
\* x and 2 for y.
CentroidCoord(c, k) == DivideByThree(FAdd(FAdd(c[k], c[k + 2]), c[k + 4]))

\* [cx, cy] of the coords c
CentroidCoords(c) == [k \in 1..2 |-> CentroidCoord(c, k)]

\* The exception of cx, else of cy, or "ok"
CentroidCheck(p) == IF Failed(p).v # "none" THEN Failed(p).v ELSE "ok"

\* Body of the triangles loop up to the append: the exception it raises
\* for one triangle, or "ok".
TriangleCheck(tri) ==
    IF ~IsIterable(tri) THEN "TypeError"
    ELSE IF ~In(KeyCoords, tri) THEN "Triangle missing 'coords'"
    ELSE IF ~IsDict(tri) THEN "TypeError"
    ELSE IF ~IsList(tri.v[KeyCoords]) \/ Len(tri.v[KeyCoords].v) < 6
         THEN "Triangle has invalid 'coords'"
    ELSE CentroidCheck(CentroidCoords(tri.v[KeyCoords].v))

\* The state appended for triangle tri at 0-based index idx.
Centroid(tri, idx) ==
    Dict(<<KeyStep, KeyCoords>>,
         <<IF KeyStep \in DOMAIN tri.v THEN tri.v[KeyStep] ELSE idx,
           List(CentroidCoords(tri.v[KeyCoords].v))>>)

\* The triangles loop over triangles whose checks gave chk: it fails at the
\* first bad triangle.
ReduceChecked(triangles, chk) ==
    LET bad == {i \in 1..Len(triangles) : chk[i] # "ok"}
    IN  IF bad # {}
        THEN Failure(chk[Min(bad)], Min(bad) - 1)
        ELSE Success(List([i \in 1..Len(triangles) |-> Centroid(triangles[i], i - 1)]))

\* CASE 2: the triangles loop.
ReduceTriangles(triangles) ==
    ReduceChecked(triangles, [i \in 1..Len(triangles) |-> TriangleCheck(triangles[i])])

\* Variant of ValidateStates: a best-effort loader that drops bad records.
ValidateStatesBestEffort(v) ==
    LET good == SelectSeq(Items(v), LAMBDA r : IsDict(r) /\ KeyCoords \in DOMAIN r.v
                                               /\ IsList(r.v[KeyCoords])
                                               /\ Len(r.v[KeyCoords].v) >= 2)
    IN  IF Len(good) = 0 THEN Failure("Trace produced no usable states", -1)
        ELSE Success(good)

\* Body of the validation loop: the exception raised for one state, or "ok".
StateCheck(s) ==
    IF ~IsIterable(s) THEN "TypeError"
    ELSE IF ~In(KeyCoords, s) THEN "State missing 'coords'"
    ELSE IF ~IsDict(s) THEN "TypeError"
    ELSE IF ~IsList(s.v[KeyCoords]) \/ Len(s.v[KeyCoords].v) < 2
         THEN "State coords must contain at least [x, y]"
    ELSE "ok"

\* VALIDATE STATES over the value v bound to states: fails where the for
\* loop cannot iterate v, at the first bad state, and on an empty result;
\* otherwise returns the list cleaned.
ValidateStates(v) ==
    IF ~IsIterable(v) THEN Failure("TypeError", -1)
    ELSE LET sts == Items(v)
             bad == {i \in 1..Len(sts) : StateCheck(sts[i]) # "ok"}
         IN  IF bad # {} THEN Failure(StateCheck(sts[Min(bad)]), Min(bad) - 1)
             ELSE IF Len(sts) = 0 THEN Failure("Trace produced no usable states", -1)
             ELSE Success(sts)

\* Variant of ResolveShape: the "triangles" key tested before "states".
ResolveShapeTrianglesFirst(data) ==
    IF IsDict(data) /\ KeyTriangles \in DOMAIN data.v
    THEN IF ~IsList(data.v[KeyTriangles]) THEN Failure("'triangles' must be a list", -1)
         ELSE ReduceTriangles(data.v[KeyTriangles].v)
    ELSE IF IsDict(data) /\ KeyStates \in DOMAIN data.v THEN Success(data.v[KeyStates])
    ELSE IF IsList(data) THEN Success(data)
    ELSE Failure("Unrecognized trace format", -1)

\* Shape resolution: the value bound to states before validation (whatever
\* the document holds under "states", unchecked), or the failure.
ResolveShape(data) ==
    IF IsDict(data) /\ KeyStates \in DOMAIN data.v THEN Success(data.v[KeyStates])
    ELSE IF IsDict(data) /\ KeyTriangles \in DOMAIN data.v
    THEN IF ~IsList(data.v[KeyTriangles]) THEN Failure("'triangles' must be a list", -1)
         ELSE ReduceTriangles(data.v[KeyTriangles].v)
    ELSE IF IsList(data) THEN Success(data)
    ELSE Failure("Unrecognized trace format", -1)

\* The validation of what shape resolution bound to states
Validated(r) == IF r.ok THEN ValidateStates(r.states) ELSE r

load_trace(data) == Validated(ResolveShape(data))

\* ------------------------------------------------------------------------
\* compute_bounds, project_point
\* ------------------------------------------------------------------------
\* coords[k] * scale of state s (k is 0-based as in the source).
Scaled(s, k, sc) == FMul(s.v[KeyCoords].v[k + 1], sc)

\* Variant of compute_bounds: a coordinate that cannot be scaled is read as
\* 0 instead of raising.
compute_bounds_lenient(sts, sc) ==
    LET val(a) == IF IsExc(FMul(a, sc)) THEN FZero ELSE FMul(a, sc)
        xs == [i \in 1..Len(sts) |-> val(sts[i].v[KeyCoords].v[1])]
        ys == [i \in 1..Len(sts) |-> val(sts[i].v[KeyCoords].v[2])]
    IN  [ok |-> TRUE, err |-> "none",
         val |-> <<FMinSeq(xs), FMaxSeq(xs), FMinSeq(ys), FMaxSeq(ys)>>]

\* Variant of compute_bounds: a degenerate axis is widened here, in the
\* returned tuple.
compute_bounds_widening(sts, sc) ==
    LET xs == [i \in 1..Len(sts) |-> FMul(sts[i].v[KeyCoords].v[1], sc)]
        ys == [i \in 1..Len(sts) |-> FMul(sts[i].v[KeyCoords].v[2], sc)]
        wide(lo, hi) == IF FEq(hi, lo) THEN FAdd(lo, Num(1)) ELSE hi
    IN  IF \E i \in 1..Len(sts) : IsExc(xs[i]) \/ IsExc(ys[i])
        THEN [ok |-> FALSE, err |-> "TypeError", val |-> <<>>]
        ELSE [ok |-> TRUE, err |-> "none",
              val |-> <<FMinSeq(xs), wide(FMinSeq(xs), FMaxSeq(xs)),
                        FMinSeq(ys), wide(FMinSeq(ys), FMaxSeq(ys))>>]

\* return min(xs), max(xs), min(ys), max(ys), unless filling xs and ys
\* raised: the first exception in the order x, y of the first failing state.
Extent(xs, ys) ==
    LET bad == {i \in 1..Len(xs) : IsExc(xs[i]) \/ IsExc(ys[i])}
    IN  IF bad # {}
        THEN [ok |-> FALSE, val |-> <<>>,
              err |-> IF IsExc(xs[Min(bad)]) THEN xs[Min(bad)].v ELSE ys[Min(bad)].v]
        ELSE IF Len(xs) = 0 THEN [ok |-> FALSE, val |-> <<>>, err |-> "ValueError"]
        ELSE [ok |-> TRUE, err |-> "none",
              val |-> <<FMinSeq(xs), FMaxSeq(xs), FMinSeq(ys), FMaxSeq(ys)>>]

\* compute_bounds: (min_x, max_x, min_y, max_y) of the scaled coordinates of
\* every state, or the first exception of a multiplication (TypeError on a
\* non-number, OverflowError on an int beyond the doubles); min() of an
\* empty list raises ValueError.
compute_bounds(sts, sc) ==
    Extent([i \in 1..Len(sts) |-> Scaled(sts[i], 0, sc)],
           [i \in 1..Len(sts) |-> Scaled(sts[i], 1, sc)])

\* The local max of project_point after "if max == min: max = min + 1.0".
Widen(lo, hi) == IF FEq(hi, lo) THEN FAdd(lo, Num(1)) ELSE hi

\* (v - min) / (max - min)
Normalized(v, lo, hi) == FDiv(FSub(v, lo), FSub(hi, lo))

\* Variant of CellX: the horizontal axis mapped onto [0, width].
CellXFullWidth(nx, w) == FInt(FMul(nx, Integer(w)))

\* int(nx * (width - 1))
CellX(nx, w) == FInt(FMul(nx, Integer(w - 1)))

\* int((1.0 - ny) * (height - 1)), the inverted vertical axis
CellY(ny, h) == FInt(FMul(FSub(Num(1), ny), Integer(h - 1)))

\* return gx, gy, unless one of the four assignments raised
Returned(nx, ny, gx, gy) ==
    [ok  |-> ~IsExc(nx) /\ ~IsExc(ny) /\ ~IsExc(gx) /\ ~IsExc(gy),
     err |-> IF IsExc(nx) THEN nx.v ELSE IF IsExc(ny) THEN ny.v
             ELSE IF IsExc(gx) THEN gx.v ELSE IF IsExc(gy) THEN gy.v ELSE "none",
     gx |-> gx, gy |-> gy]

\* gx and gy from the normalized coordinates
GridCell(nx, ny, w, h) == Returned(nx, ny, CellX(nx, w), CellY(ny, h))

\* project_point: the cell (gx, gy) as Python ints, or the first exception
\* in the order nx, ny, gx, gy: ZeroDivisionError of a zero range,
\* ValueError of int(nan), OverflowError of int(inf).
project_point(x, y, b, w, h) ==
    GridCell(Normalized(x, b[1], Widen(b[1], b[2])), Normalized(y, b[3], Widen(b[3], b[4])),
          w, h)

\* Surface geometry of ascii_run.
SurfaceWidth(maxw, cols) == IF maxw < cols THEN maxw ELSE cols

\* Variant of SurfaceHeight: the configured maximum is not applied.
SurfaceHeightUncapped(maxh, rows) == IF rows - 2 > 4 THEN rows - 2 ELSE 4

SurfaceHeight(maxh, rows) ==
    LET avail == IF rows - 2 > 4 THEN rows - 2 ELSE 4
    IN  IF maxh < avail THEN maxh ELSE avail

\* Variant of StepLabel: the label is always the loop index.
StepLabelIndexOnly(s, idx) == idx

\* state.get("step", idx)
StepLabel(s, idx) == IF KeyStep \in DOMAIN s.v THEN s.v[KeyStep] ELSE idx

\* Variant of Sampled: the stride is ignored.
SampledEveryState(idx, k) == TRUE

\* The loop's stride test: state idx is processed.
Sampled(idx, k) == ~(k > 1 /\ idx % k # 0)

\* 0 <= g < n on a Python int g
InRange(g, n) == ~FLess(g, Integer(0)) /\ FLess(g, Integer(n))

\* The arguments one call of draw_frame hands to the terminal.
draw_frame(w, h, tr, turtle_pos, step) ==
    [width |-> w, height |-> h, trail |-> tr, turtle_pos |-> turtle_pos, step |-> step]

\* 10^9: time.sleep converts the delay to nanoseconds.
NanosPerSecond == 1000000000

\* What time.sleep(delay) can do: return ("none") or raise.  The delay in
\* nanoseconds must lie in [-2^63, 2^63); a negative delay is refused; a
\* delay from 2^62 ns on can pass the end of the monotonic clock, which the
\* system rejects depending on its uptime.
SleepFor(delay, ns) ==
    IF delay.k = "nan" THEN {"ValueError: Invalid value NaN (not a number)"}
    ELSE IF ~FLess(ns, Scale2(1, 63)) \/ FLess(ns, Scale2(-1, 63))
         THEN {"OverflowError: timestamp out of range for platform time_t"}
    ELSE IF delay.s < 0 THEN {"ValueError: sleep length must be non-negative"}
    ELSE IF FLess(ns, Scale2(1, 62)) THEN {"none"}
    ELSE {"none", "OSError: [Errno 22] Invalid argument"}

SleepOutcomes(delay) == SleepFor(delay, FMul(delay, Num(NanosPerSecond)))

\* ------------------------------------------------------------------------
\* State of one invocation
\* ------------------------------------------------------------------------
VARIABLES
    data,         \* the parsed JSON document
    args,         \* scale, delay, static, max_width, max_height, skip, terminal size
    pc,           \* position in main / ascii_run
    states,       \* the list load_trace returned
    err,          \* the exception that ended the run, or "none"
    width, height,
    bounds,
    trail,        \* trail[gy][gx]
    idx,          \* loop index of ascii_run (0-based)
    pos,          \* (gx, gy) of the state being processed
    frames,       \* the calls of draw_frame so far
    sleeps        \* the calls of time.sleep that returned

vars == <<data, args, pc, states, err, width, height, bounds, trail, idx, pos,
          frames, sleeps>>

\* ------------------------------------------------------------------------
\* Inputs.  Four families of invocations: playback runs over traces of up
\* to MaxLen states with every stride and both modes; pacing runs with
\* delays time.sleep accepts and refuses; projection runs over short traces
\* with negative, equal and very large coordinates, several scales and
\* surfaces; loader runs over documents of every shape with good and bad
\* records.
\* ------------------------------------------------------------------------
MaxLen == 3

MaxSkip == 3

ShortLen == 2

Args(sc, dl, st, mw, mh, sk, cols, rows) ==
    [scale |-> sc, delay |-> dl, static_only |-> st, max_width |-> mw,
     max_height |-> mh, skip |-> sk, term_cols |-> cols, term_rows |-> rows]

\* The double nearest to 0.05, the default of --delay.
DefaultDelay == Mk("float", "fin", 1, <<19661, 6553, 13107, 102>>, -56)

Point(x, y) == List(<<x, y>>)

\* {"coords": c}
Rec(c) == Dict(<<KeyCoords>>, <<c>>)

\* {"coords": c, "step": n}
RecAt(c, n) == Dict(<<KeyCoords, KeyStep>>, <<c, n>>)

PlayRecs ==
    {RecAt(Point(Integer(0), Integer(0)), 7),
     Rec(Point(Integer(1), Integer(0))),
     Rec(Point(Integer(2), Integer(0)))}

PlayInputs(d, a) ==
    \E k \in 1..MaxLen : \E sts \in [1..k -> PlayRecs] :
    \E st \in BOOLEAN : \E sk \in 1..MaxSkip :
        /\ d = Dict(<<KeyStates>>, <<List(sts)>>)
        /\ a = Args(Num(1), DefaultDelay, st, 4, 3, sk, 80, 24)

\* 0.0, -1.0, nan, 2^33 s (within a century of the clock's end), 2^40 s
PaceDelays == {FZero, Num(-1), NaN, Scale2(1, 33), Scale2(1, 40)}

PaceTrace ==
    <<RecAt(Point(Integer(0), Integer(0)), 7), Rec(Point(Integer(1), Num(1))),
      Rec(Point(Integer(2), Integer(0)))>>

PaceInputs(d, a) ==
    \E dl \in PaceDelays : \E st \in BOOLEAN : \E sk \in {1, 2} :
        /\ d = Dict(<<KeyStates>>, <<List(PaceTrace)>>)
        /\ a = Args(Num(1), dl, st, 4, 3, sk, 80, 24)

ProjRecs ==
    {Rec(Point(Integer(-1), Integer(-1))), Rec(Point(Integer(2), Integer(-1))),
     Rec(Point(Integer(2), Num(2))), Rec(Point(Huge(1), Huge(1))),
     Rec(Point(Huge(-1), Huge(-1)))}

ProjScales == {Num(-1), FZero, Num(2)}

ProjSurfaces == {<<10, 10, 80, 24>>, <<1, 1, 80, 24>>, <<80, 24, 7, 3>>, <<80, 24, 20, 8>>}

ProjInputs(d, a) ==
    \E k \in 1..ShortLen : \E sts \in [1..k -> ProjRecs] :
    \E sc \in ProjScales : \E st \in BOOLEAN : \E g \in ProjSurfaces :
        /\ d = List(sts)
        /\ a = Args(sc, DefaultDelay, st, g[1], g[2], 1, g[3], g[4])

\* The Python int 2^2000, beyond the doubles.
HugeInt == Mk("int", "fin", 1, <<1>>, 2000)

LoadRecs ==
    {Dict(<<KeyStep>>, <<7>>),
     Rec(Integer(1)),
     Rec(List(<<Integer(1)>>)),
     Rec(Point(Integer(1), Integer(2))),
     RecAt(Point(Integer(2), Integer(0)), 7),
     Rec(List(<<Integer(2), Num(1), Integer(0)>>)),
     Rec(Point(Str, Integer(0))),
     Rec(Point(Integer(1), HugeInt)),
     Str,
     Integer(5)}

Tri(x1, y1, x2, y2, x3, y3) ==
    <<Integer(x1), Integer(y1), Integer(x2), Integer(y2), Integer(x3), Integer(y3)>>

TriRecs ==
    {Dict(<<KeyStep>>, <<7>>),
     Rec(Integer(1)),
     Rec(List(<<Integer(0), Integer(0), Integer(1)>>)),
     Rec(List(Tri(0, 0, 3, 0, 0, 3))),
     Rec(List(Tri(0, 0, 1, 0, 0, 2))),
     RecAt(List(Tri(0, 1, 2, 3, 4, 5)), 7),
     Rec(List(<<Num(1), Num(1), Num(1), Num(1), Num(1), Num(1)>>)),
     Rec(List(Tri(0, 0, 3, 0, 0, 3) \o <<Integer(9), Integer(9)>>)),
     Rec(List(<<Integer(0), Integer(0), Str, Integer(0), Integer(0), Integer(0)>>)),
     Rec(List(<<HugeInt, Integer(0), Integer(0), Str, Integer(0), Integer(0)>>)),
     Rec(List(<<Huge(1), Integer(0), Huge(1), Integer(0), Integer(0), Integer(0)>>)),
     Rec(List(<<HugeInt, Integer(0), Integer(0), Integer(0), Integer(0), Integer(0)>>)),
     Null}

OddDocs ==
    {Dict(<<KeyStates>>, <<Integer(0)>>),
     Dict(<<KeyStates>>, <<Str>>),
     Dict(<<KeyStates>>, <<Text(<<>>)>>),
     Dict(<<KeyStates>>, <<Null>>),
     Dict(<<KeyStates>>, <<Dict(<<>>, <<>>)>>),
     Dict(<<KeyStates>>, <<Rec(Integer(1))>>),
     Dict(<<KeyStates>>, <<Dict(<<KeyStep>>, <<7>>)>>),
     Dict(<<KeyTriangles>>, <<Integer(0)>>),
     Dict(<<KeyTriangles>>, <<Str>>),
     Dict(<<KeyStates>>, <<Dict(<<<<"m", "y">> \o KeyCoords>>, <<Integer(1)>>)>>),
     Dict(<<KeyStates>>, <<List(<<Text(KeyCoords)>>)>>),
     Dict(<<KeyStates>>, <<List(<<List(<<Text(KeyCoords)>>)>>)>>),
     Dict(<<KeyTriangles>>, <<List(<<Text(<<"x">> \o KeyCoords)>>)>>),
     Dict(<<<<"m", "e", "t", "a">>>>, <<Integer(0)>>),
     Dict(<<>>, <<>>),
     Integer(5), Str, Null}

LoadDocs(d) ==
    \/ \E k \in 0..ShortLen : \E sts \in [1..k -> LoadRecs] :
          d = Dict(<<KeyStates>>, <<List(sts)>>) \/ d = List(sts)
    \/ \E k \in 0..ShortLen : \E ts \in [1..k -> TriRecs] :
          d = Dict(<<KeyTriangles>>, <<List(ts)>>)
    \/ \E k \in 0..1 : \E sts \in [1..k -> LoadRecs] : \E t \in TriRecs :
          d = Dict(<<KeyStates, KeyTriangles>>, <<List(sts), List(<<t>>)>>)
    \/ d \in OddDocs

LoadInputs(d, a) ==
    /\ LoadDocs(d)
    /\ a = Args(Num(1), DefaultDelay, FALSE, 6, 4, 1, 80, 24)

\* ------------------------------------------------------------------------
\* main and ascii_run
\* ------------------------------------------------------------------------
Init ==
    /\ \/ PlayInputs(data, args)
       \/ PaceInputs(data, args)
       \/ ProjInputs(data, args)
       \/ LoadInputs(data, args)
    /\ pc = "load"
    /\ states = <<>>
    /\ err = "none"
    /\ width = 0
    /\ height = 0
    /\ bounds = <<>>
    /\ trail = <<>>
    /\ idx = 0
    /\ pos = <<Integer(0), Integer(0)>>
    /\ frames = <<>>
    /\ sleeps = 0

\* main: states = load_trace(args.trace); an exception ends the invocation.
LoadTrace ==
    /\ pc = "load"
    /\ \E r \in {load_trace(data)} :
           /\ states' = r.states
           /\ err' = r.err
           /\ pc' = IF r.ok THEN "setup" ELSE "error"
    /\ UNCHANGED <<data, args, width, height, bounds, trail, idx, pos, frames, sleeps>>

\* ascii_run up to the loop: geometry, bounds, empty trail.
Setup ==
    /\ pc = "setup"
    /\ \E w \in {SurfaceWidth(args.max_width, args.term_cols)} :
       \E h \in {SurfaceHeight(args.max_height, args.term_rows)} :
       \E b \in {compute_bounds(states, args.scale)} :
           /\ width' = w
           /\ height' = h
           /\ IF b.ok
              THEN /\ bounds' = b.val
                   /\ trail' = [j \in 0..(h - 1) |-> [i \in 0..(w - 1) |-> FALSE]]
                   /\ pc' = "loop"
                   /\ err' = err
              ELSE /\ err' = b.err
                   /\ pc' = "error"
                   /\ UNCHANGED <<bounds, trail>>
    /\ UNCHANGED <<data, args, states, idx, pos, frames, sleeps>>

\* Variant of Mark: the mask is rebuilt around the current cell alone.
MarkOnlyCurrent(tr, gx, gy, w, h) ==
    [j \in 0..(h - 1) |-> [i \in 0..(w - 1) |-> Integer(i) = gx /\ Integer(j) = gy]]

\* x = state["coords"][0] * scale, y = state["coords"][1] * scale and
\* project_point(x, y, bounds, width, height)
Projection(st, sc, b, w, h) == project_point(Scaled(st, 0, sc), Scaled(st, 1, sc), b, w, h)

\* trail[gy][gx] = True under the driver's guard.
Mark(tr, gx, gy, w, h) ==
    IF InRange(gx, w) /\ InRange(gy, h)
    THEN [tr EXCEPT ![IntValue(gy)][IntValue(gx)] = TRUE]
    ELSE tr

\* One pass of the loop body up to draw_frame: stride test, projection,
\* trail mark, and the continue of static mode.
LoopStep ==
    /\ pc = "loop"
    /\ idx < Len(states)
    /\ IF ~Sampled(idx, args.skip)
       THEN /\ idx' = idx + 1
            /\ UNCHANGED <<pc, err, trail, pos>>
       ELSE \E p \in {Projection(states[idx + 1], args.scale, bounds, width, height)} :
                IF ~p.ok
                THEN /\ err' = p.err
                     /\ pc' = "error"
                     /\ UNCHANGED <<trail, pos, idx>>
                ELSE /\ pos' = <<p.gx, p.gy>>
                     /\ trail' = Mark(trail, p.gx, p.gy, width, height)
                     /\ err' = err
                     /\ IF args.static_only
                        THEN idx' = idx + 1 /\ pc' = pc
                        ELSE idx' = idx /\ pc' = "draw"
    /\ UNCHANGED <<data, args, states, width, height, bounds, frames, sleeps>>

\* draw_frame(width, height, trail, (gx, gy), state.get("step", idx))
DrawFrame ==
    /\ pc = "draw"
    /\ frames' = Append(frames,
                   draw_frame(width, height, trail, pos, StepLabel(states[idx + 1], idx)))
    /\ pc' = "sleep"
    /\ UNCHANGED <<data, args, states, err, width, height, bounds, trail, idx, pos, sleeps>>

\* time.sleep(delay), then the next iteration; an exception of time.sleep
\* ends the run.
Sleep ==
    /\ pc = "sleep"
    /\ \E out \in SleepOutcomes(args.delay) :
         IF out = "none"
         THEN /\ sleeps' = sleeps + 1
              /\ idx' = idx + 1
              /\ pc' = "loop"
              /\ err' = err
         ELSE /\ err' = out
              /\ pc' = "error"
              /\ UNCHANGED <<sleeps, idx>>
    /\ UNCHANGED <<data, args, states, width, height, bounds, trail, pos, frames>>

\* Final static render: the last state of the full trace, drawn once.
FinalRender ==
    /\ pc = "loop"
    /\ idx = Len(states)
    /\ args.static_only
    /\ \E p \in {Projection(states[Len(states)], args.scale, bounds, width, height)} :
           IF ~p.ok
           THEN /\ err' = p.err
                /\ pc' = "error"
                /\ UNCHANGED <<pos, frames>>
           ELSE /\ pos' = <<p.gx, p.gy>>
                /\ frames' = Append(frames,
                     draw_frame(width, height, trail, <<p.gx, p.gy>>,
                                StepLabel(states[Len(states)], Len(states) - 1)))
                /\ pc' = "done"
                /\ err' = err
    /\ UNCHANGED <<data, args, states, width, height, bounds, trail, idx, sleeps>>

\* The loop ends in animated mode: ascii_run returns.
Finish ==
    /\ pc = "loop"
    /\ idx = Len(states)
    /\ ~args.static_only
    /\ pc' = "done"
    /\ UNCHANGED <<data, args, states, err, width, height, bounds, trail, idx, pos,
                   frames, sleeps>>

Next == LoadTrace \/ Setup \/ LoopStep \/ DrawFrame \/ Sleep \/ FinalRender \/ Finish

Spec == Init /\ [][Next]_vars

\* ------------------------------------------------------------------------
\* Vocabulary of the properties
\* ------------------------------------------------------------------------
\* Load and bounds computation succeeded: the playback loop was entered.
PlaybackEntered == bounds # <<>>

\* The invocation is over.
RunOver == pc \in {"done", "error"}

\* load_trace raised.
LoadFailed == pc = "error" /\ states = <<>>

\* compute_bounds raised.
BoundsFailed == pc = "error" /\ states # <<>> /\ bounds = <<>>

\* time.sleep raised: a frame was drawn and its delay never completed.
SleepFailed == pc = "error" /\ Len(frames) > sleeps

\* The cells of the surface.
Cells == (0..(width - 1)) \X (0..(height - 1))

\* The cells of the trail mask that are true.
TrailCells == {c \in Cells : trail[c[2]][c[1]]}

\* The cell c as the pair of Python ints project_point returns.
At(c) == <<Integer(c[1]), Integer(c[2])>>

\* The projection of state i (0-based) under the run's bounds and surface.
ProjectionOf(i) ==
    project_point(Scaled(states[i + 1], 0, args.scale),
                  Scaled(states[i + 1], 1, args.scale), bounds, width, height)

\* The cell state i (0-based) of the loaded trace projects to.
CellOf(i) == LET p == ProjectionOf(i) IN <<p.gx, p.gy>>

\* The pair of ints g lies on the surface.
InSurface(g) == InRange(g[1], width) /\ InRange(g[2], height)

\* Ordinal indices 0, k, 2k, ... below n (every index when k <= 1).
Multiples(k, n) == {i \in 0..(n - 1) : k <= 1 \/ i % k = 0}

\* Number of states the loop has finished marking.
Processed == IF pc \in {"draw", "sleep"} \/ SleepFailed THEN idx + 1 ELSE idx

\* ------------------------------------------------------------------------
\* C1
\* ------------------------------------------------------------------------
\* C1 (as claimed): a static run over a loaded, non-empty trace ends having
\* handed exactly one frame to the sink, without any sleep, and the frame's
\* cursor is the projection of the last state of the full trace.
C1_StaticOneFrame ==
    (args.static_only /\ PlaybackEntered /\ RunOver) =>
        /\ Len(frames) = 1
        /\ sleeps = 0
        /\ frames[1].turtle_pos = CellOf(Len(states) - 1)

\* ------------------------------------------------------------------------
\* C2
\* ------------------------------------------------------------------------
\* C2: with skip = k > 1 the true cells of the trail mask are, at every
\* point of the run and at its end, exactly the projected cells of the
\* states at indices 0, k, 2k, ... processed so far; no other state, the
\* last state of a static run included, sets a cell.
C2_TrailFromSampledStates ==
    (args.skip > 1 /\ PlaybackEntered) =>
        LET sampled == {CellOf(i) : i \in Multiples(args.skip, Processed)}
        IN  /\ \A g \in sampled : InSurface(g)
            /\ \A c \in Cells : trail[c[2]][c[1]] <=> At(c) \in sampled

\* A finished static run with skip > 1 whose last state is off the stride
\* and projects to a cell no sampled state marked.
C2_Witness ==
    /\ pc = "done"
    /\ args.static_only
    /\ args.skip > 1
    /\ (Len(states) - 1) % args.skip # 0
    /\ \E c \in Cells : CellOf(Len(states) - 1) = At(c) /\ ~trail[c[2]][c[1]]
    /\ TrailCells # {}

\* ------------------------------------------------------------------------
\* C3
\* ------------------------------------------------------------------------
\* C3 (as claimed): an animated run over a loaded trace finishes, having
\* drawn one frame per sampled state in increasing order and slept once
\* after each frame.
C3_AnimatedFramePerSample ==
    (~args.static_only /\ PlaybackEntered /\ RunOver) =>
        /\ pc = "done"
        /\ Len(frames) = Cardinality(Multiples(args.skip, Len(states)))
        /\ sleeps = Len(frames)
        /\ \A k \in 1..Len(frames) :
             frames[k].turtle_pos = CellOf((k - 1) * (IF args.skip > 1 THEN args.skip ELSE 1))

\* ------------------------------------------------------------------------
\* C4
\* ------------------------------------------------------------------------
\* Every state has two leading numeric coordinates that scale to doubles:
\* what load and bounds computation must have established.
TraceWellFormed ==
    /\ states # <<>>
    /\ \A i \in 1..Len(states) :
         /\ IsDict(states[i])
         /\ KeyCoords \in DOMAIN states[i].v
         /\ IsList(states[i].v[KeyCoords])
         /\ Len(states[i].v[KeyCoords].v) >= 2
         /\ \A k \in 1..2 :
              /\ IsNumber(states[i].v[KeyCoords].v[k])
              /\ ~IsExc(ToFloat(states[i].v[KeyCoords].v[k]))

\* C4: a run that fails in loading or in bounds computation ends in the
\* error state with no frame drawn and no sleep, and a frame is drawn only
\* once the whole trace is loaded, validated and its bounds are computed.
C4_FailFast ==
    /\ (LoadFailed \/ BoundsFailed) => (frames = <<>> /\ sleeps = 0)
    /\ (frames # <<>> \/ sleeps > 0 \/ pc \in {"draw", "sleep"}) =>
          (TraceWellFormed /\ PlaybackEntered)
    /\ (~PlaybackEntered /\ RunOver) => pc = "error"

\* Bounds computation failed on a trace that loaded (a non-numeric
\* coordinate), and the run is over without a frame.
C4_Witness ==
    /\ BoundsFailed
    /\ err = "TypeError"
    /\ Len(states) >= 2
    /\ frames = <<>>

\* ------------------------------------------------------------------------
\* C5
\* ------------------------------------------------------------------------
\* The shape of the document, in the order states, triangles, bare sequence.
ShapeOf(d) ==
    IF IsDict(d) /\ KeyStates \in DOMAIN d.v THEN "states"
    ELSE IF IsDict(d) /\ KeyTriangles \in DOMAIN d.v THEN "triangles"
    ELSE IF IsList(d) THEN "list"
    ELSE "other"

\* The value that holds the document's records.
SourceValue ==
    IF ShapeOf(data) = "states" THEN data.v[KeyStates]
    ELSE IF ShapeOf(data) = "triangles" THEN data.v[KeyTriangles]
    ELSE data

\* The document has a sequence of records.
HasRecords == ShapeOf(data) # "other" /\ IsList(SourceValue)

SourceRecords == SourceValue.v

\* A record that lacks coords or whose coords are too short for its shape.
BadRecord(r) ==
    \/ ~IsDict(r)
    \/ KeyCoords \notin DOMAIN r.v
    \/ IsList(r.v[KeyCoords]) /\ Len(r.v[KeyCoords].v) < (IF ShapeOf(data) = "triangles" THEN 6 ELSE 2)

\* {"triangles":[{"coords":[0,0,1]}]}
ShortTriangleDoc ==
    Dict(<<KeyTriangles>>, <<List(<<Rec(List(<<Integer(0), Integer(0), Integer(1)>>))>>)>>)

\* C5: loading is all-or-nothing.  When the resolved sequence is empty or
\* any record of it, at any position, lacks coords or has too few values,
\* load fails with no states and nothing is drawn; a load that succeeds
\* kept every record; the short-triangle document fails validation.
C5_AllOrNothing ==
    pc # "load" =>
        /\ (HasRecords /\ (Len(SourceRecords) = 0
                           \/ \E i \in 1..Len(SourceRecords) : BadRecord(SourceRecords[i])))
              => (LoadFailed /\ err # "none" /\ frames = <<>>)
        /\ (HasRecords /\ ~LoadFailed) => Len(states) = Len(SourceRecords)
        /\ data = ShortTriangleDoc => (LoadFailed /\ err = "Triangle has invalid 'coords'")

\* A load that failed on a bad record standing after a good one.
C5_Witness ==
    /\ LoadFailed
    /\ ShapeOf(data) = "states"
    /\ HasRecords
    /\ Len(SourceRecords) = 2
    /\ ~BadRecord(SourceRecords[1])
    /\ BadRecord(SourceRecords[2])

\* ------------------------------------------------------------------------
\* C6
\* ------------------------------------------------------------------------
\* The step a record carries, or its 0-based ordinal index.
OwnStepOr(r, i) == IF KeyStep \in DOMAIN r.v THEN r.v[KeyStep] ELSE i

\* The load of a states-shaped document succeeded.
StatesDocLoaded == ShapeOf(data) = "states" /\ pc # "load" /\ ~LoadFailed

\* C6 (as claimed): the sequence load returns for a valid states-shaped
\* document has the input's length and order and every returned state has
\* a step, its own or its ordinal index.
C6_LoadDefaultsStep ==
    StatesDocLoaded =>
        /\ Len(states) = Len(SourceRecords)
        /\ \A i \in 1..Len(states) :
             /\ states[i].v[KeyCoords] = SourceRecords[i].v[KeyCoords]
             /\ KeyStep \in DOMAIN states[i].v
             /\ states[i].v[KeyStep] = OwnStepOr(SourceRecords[i], i - 1)

\* The index of the state frame k shows.
FrameIndex(k) ==
    IF args.static_only THEN Len(states) - 1
    ELSE (k - 1) * (IF args.skip > 1 THEN args.skip ELSE 1)

\* C6 (amended): load returns the records of a valid states-shaped document
\* unchanged, in the same number and order, a record without step staying
\* without one; the default is applied by the playback driver, so that the
\* step label of every frame is the shown record's own step when present
\* and otherwise its ordinal index in the full trace.
C6_StepDefaultAtRender ==
    StatesDocLoaded =>
        /\ IsList(SourceValue)
        /\ states = SourceRecords
        /\ \A k \in 1..Len(frames) :
             frames[k].step = OwnStepOr(SourceRecords[FrameIndex(k) + 1], FrameIndex(k))

\* An animated run with stride 2 over three records has drawn its second
\* frame, showing a record that came back from load without a step,
\* labelled with its ordinal index 2; the first frame carries its own step.
C6_Witness ==
    /\ StatesDocLoaded
    /\ pc = "done"
    /\ ~args.static_only
    /\ args.skip = 2
    /\ Len(frames) = 2
    /\ KeyStep \notin DOMAIN states[3].v
    /\ frames[2].step = 2
    /\ KeyStep \in DOMAIN states[1].v
    /\ frames[1].step = states[1].v[KeyStep]

\* ------------------------------------------------------------------------
\* C7
\* ------------------------------------------------------------------------
\* A triangles-shaped document all of whose records are valid: coords of at
\* least six numbers.
ValidTrianglesDoc ==
    /\ ShapeOf(data) = "triangles"
    /\ IsList(data.v[KeyTriangles])
    /\ Len(SourceRecords) > 0
    /\ \A i \in 1..Len(SourceRecords) :
         /\ IsDict(SourceRecords[i])
         /\ KeyCoords \in DOMAIN SourceRecords[i].v
         /\ IsList(SourceRecords[i].v[KeyCoords])
         /\ Len(SourceRecords[i].v[KeyCoords].v) >= 6
         /\ \A k \in 1..6 : IsNumber(SourceRecords[i].v[KeyCoords].v[k])

\* a + b of two finite numbers as a real number, without rounding.
ExactAdd(a, b) ==
    LET e == ExactSum(a, b) IN Canon("float", e[1], e[2], e[3])

\* The double q is a third of the real sum of a, b and c to within half a
\* unit in its last place.
IsMeanOf(q, a, b, c) ==
    /\ q.t = "float"
    /\ q.k = "fin"
    /\ LET sum  == ExactAdd(ExactAdd(a, b), c)
           diff == ExactAdd(Canon("float", q.s, BMulSmall(q.m, 3), q.x), Negated(sum))
       IN  IF q.s = 0 THEN sum.s = 0
           ELSE \/ diff.s = 0
                \/ MagCmp(Mk("float", "fin", 1, diff.m, diff.x + 1),
                          Mk("float", "fin", 1, <<3>>, Top(q) - (Precision - 1))) <= 0

\* C7 (as claimed): for a valid triangles-shaped document of N records load
\* returns N states in order; state i has exactly the two coordinates
\* ((x1+x2+x3)/3, (y1+y2+y3)/3) of the first six values of record i and
\* the step of record i, or i when it has none.
C7_TriangleCentroids ==
    (pc # "load" /\ ValidTrianglesDoc) =>
        /\ ~LoadFailed
        /\ Len(states) = Len(SourceRecords)
        /\ \A i \in 1..Len(states) :
             LET c == SourceRecords[i].v[KeyCoords].v
                 r == states[i].v[KeyCoords]
             IN  /\ IsList(r)
                 /\ Len(r.v) = 2
                 /\ IsMeanOf(r.v[1], c[1], c[3], c[5])
                 /\ IsMeanOf(r.v[2], c[2], c[4], c[6])
                 /\ DOMAIN states[i].v = {KeyStep, KeyCoords}
                 /\ states[i].v[KeyStep] = OwnStepOr(SourceRecords[i], i - 1)

\* The sums x1 + x2 + x3 and y1 + y2 + y3 of every record stay within the
\* doubles at each addition.
SumsWithinDoubles ==
    \A i \in 1..Len(SourceRecords) : \A k \in {1, 2} :
        LET c == SourceRecords[i].v[KeyCoords].v
        IN  /\ \A j \in {k, k + 2, k + 4} : c[j].s = 0 \/ Top(c[j]) <= MaxTop
            /\ ExactAdd(c[k], c[k + 2]).s = 0 \/ Top(ExactAdd(c[k], c[k + 2])) <= MaxTop
            /\ \/ ExactAdd(ExactAdd(c[k], c[k + 2]), c[k + 4]).s = 0
               \/ Top(ExactAdd(ExactAdd(c[k], c[k + 2]), c[k + 4])) <= MaxTop

\* What holds of C7 on the documents whose coordinate sums do not overflow.
CentroidsWithinDoubles ==
    (pc # "load" /\ ValidTrianglesDoc /\ SumsWithinDoubles) =>
        /\ ~LoadFailed
        /\ Len(states) = Len(SourceRecords)
        /\ \A i \in 1..Len(states) :
             LET c == SourceRecords[i].v[KeyCoords].v
                 r == states[i].v[KeyCoords]
             IN  /\ Len(r.v) = 2
                 /\ IsMeanOf(r.v[1], c[1], c[3], c[5])
                 /\ IsMeanOf(r.v[2], c[2], c[4], c[6])
                 /\ DOMAIN states[i].v = {KeyStep, KeyCoords}
                 /\ states[i].v[KeyStep] = OwnStepOr(SourceRecords[i], i - 1)

\* ------------------------------------------------------------------------
\* C8
\* ------------------------------------------------------------------------
\* C8: the shape is resolved in the order states, triangles, bare sequence.
\* A mapping with "states" is loaded from its states whatever else it
\* holds, a mapping with only "triangles" is reduced to two-coordinate
\* states, a bare sequence is its own states, and any other document fails
\* with the format error and no states.
C8_ShapeResolution ==
    pc # "load" =>
        /\ ShapeOf(data) = "states" =>
              IF LoadFailed
              THEN err \in {"State missing 'coords'",
                            "State coords must contain at least [x, y]",
                            "Trace produced no usable states", "TypeError"}
              ELSE IsList(data.v[KeyStates]) /\ states = data.v[KeyStates].v
        /\ ShapeOf(data) = "triangles" =>
              IF LoadFailed
              THEN err \in {"Triangle missing 'coords'", "Triangle has invalid 'coords'",
                            "'triangles' must be a list", "TypeError", "OverflowError",
                            "Trace produced no usable states"}
              ELSE /\ Len(states) = Len(data.v[KeyTriangles].v)
                   /\ \A i \in 1..Len(states) : Len(states[i].v[KeyCoords].v) = 2
        /\ ShapeOf(data) = "list" =>
              IF LoadFailed
              THEN err \in {"State missing 'coords'",
                            "State coords must contain at least [x, y]",
                            "Trace produced no usable states", "TypeError"}
              ELSE states = data.v
        /\ ShapeOf(data) = "other" =>
              (LoadFailed /\ err = "Unrecognized trace format" /\ frames = <<>>)

\* A mapping holding both keys was loaded from its states.
C8_Witness ==
    /\ pc # "load"
    /\ ~LoadFailed
    /\ IsDict(data)
    /\ {KeyStates, KeyTriangles} \subseteq DOMAIN data.v
    /\ states = data.v[KeyStates].v

\* ------------------------------------------------------------------------
\* C9
\* ------------------------------------------------------------------------
\* {"states":[{"coords":[0,0]},{"coords":[10,0]},{"coords":[10,10]}]}
CornerStates ==
    <<Rec(Point(Integer(0), Integer(0))), Rec(Point(Integer(10), Integer(0))),
      Rec(Point(Integer(10), Integer(10)))>>

CornerBounds == compute_bounds(CornerStates, Num(1)).val

CornerCell(i) ==
    LET p == project_point(Scaled(CornerStates[i], 0, Num(1)),
                           Scaled(CornerStates[i], 1, Num(1)), CornerBounds, 10, 10)
    IN  <<p.ok, p.gx, p.gy>>

\* Both axes of the computed bounds have distinct ends.
NonDegenerate == PlaybackEntered /\ bounds[1] # bounds[2] /\ bounds[3] # bounds[4]

\* The corner points of the bounds project to the corner cells, and every
\* state lying on a bound is drawn there.
CornersAtCornerCells ==
    /\ \A cx \in {1, 2} : \A cy \in {3, 4} :
         LET p == project_point(bounds[cx], bounds[cy], bounds, width, height)
         IN  /\ p.ok
             /\ p.gx = Integer(IF cx = 1 THEN 0 ELSE width - 1)
             /\ p.gy = Integer(IF cy = 3 THEN height - 1 ELSE 0)
    /\ \A i \in 1..Len(states) :
         LET x == Scaled(states[i], 0, args.scale)
             y == Scaled(states[i], 1, args.scale)
             c == CellOf(i - 1)
         IN  /\ x = bounds[1] => c[1] = Integer(0)
             /\ x = bounds[2] => c[1] = Integer(width - 1)
             /\ y = bounds[3] => c[2] = Integer(height - 1)
             /\ y = bounds[4] => c[2] = Integer(0)

\* C9 (as claimed): when the bounds are non-degenerate on both axes and the
\* surface has at least one cell each way, the four corner points of the
\* bounds project to horizontal cell 0 at min_x and width-1 at max_x, and
\* to vertical cell height-1 at min_y and 0 at max_y; every state lying on
\* a bound is drawn there; and the three-state example gives bounds
\* (0,10,0,10) and cells (0,9), (9,9), (9,0) on a 10x10 surface.
C9_CornersProject ==
    /\ (NonDegenerate /\ width >= 1 /\ height >= 1) => CornersAtCornerCells
    /\ CornerBounds = <<Num(0), Num(10), Num(0), Num(10)>>
    /\ CornerCell(1) = <<TRUE, Integer(0), Integer(9)>>
    /\ CornerCell(2) = <<TRUE, Integer(9), Integer(9)>>
    /\ CornerCell(3) = <<TRUE, Integer(9), Integer(0)>>

\* Both ranges max - min are finite doubles.
RangesFinite ==
    /\ FSub(bounds[2], bounds[1]).k = "fin"
    /\ FSub(bounds[4], bounds[3]).k = "fin"

\* What holds of C9 on the traces whose ranges do not overflow.
CornersWithinDoubles ==
    /\ (NonDegenerate /\ RangesFinite /\ width >= 1 /\ height >= 1) => CornersAtCornerCells
    /\ CornerBounds = <<Num(0), Num(10), Num(0), Num(10)>>
    /\ CornerCell(1) = <<TRUE, Integer(0), Integer(9)>>
    /\ CornerCell(2) = <<TRUE, Integer(9), Integer(9)>>
    /\ CornerCell(3) = <<TRUE, Integer(9), Integer(0)>>

\* A finished run on a 10x10 surface over a trace with distinct ends on
\* both axes, whose last frame shows the (max_x, max_y) state at (9, 0) and
\* whose trail holds the (min_x, min_y) corner cell (0, 9).
CornersReached ==
    /\ pc = "done"
    /\ NonDegenerate
    /\ RangesFinite
    /\ width = 10
    /\ height = 10
    /\ frames # <<>>
    /\ frames[Len(frames)].turtle_pos = At(<<9, 0>>)
    /\ trail[9][0]

\* ------------------------------------------------------------------------
\* C10
\* ------------------------------------------------------------------------
\* C10 (as claimed): a run over a trace of exactly one state, whatever its
\* coordinates and the scale, never ends in a division by zero, and its
\* state is drawn at horizontal cell 0, vertical cell height-1.
C10_SingleStateNoDivision ==
    (Len(states) = 1 /\ PlaybackEntered) =>
        /\ err # "ZeroDivisionError"
        /\ pc = "done" =>
             (frames # <<>> /\ frames[Len(frames)].turtle_pos = At(<<0, height - 1>>))

\* What holds of the claims that an exception of the arithmetic or of the
\* pacing defeats, on every run that meets none.
OffTheFaults ==
    err = "none" =>
        (C1_StaticOneFrame /\ C3_AnimatedFramePerSample /\ C10_SingleStateNoDivision)

\* ------------------------------------------------------------------------
\* C11
\* ------------------------------------------------------------------------
\* lo and hi are the least and the greatest of coordinate k (0-based),
\* scaled, over every state of the loaded trace.
IsExtentOf(lo, hi, k) ==
    /\ \A i \in 1..Len(states) :
         /\ ~FLess(Scaled(states[i], k, args.scale), lo)
         /\ ~FLess(hi, Scaled(states[i], k, args.scale))
    /\ \E i \in 1..Len(states) : Scaled(states[i], k, args.scale) = lo
    /\ \E i \in 1..Len(states) : Scaled(states[i], k, args.scale) = hi

\* C11 (as claimed): on an axis whose scaled coordinates are all equal the
\* computed bounds hold min and, as max, min + 1.0.
C11_BoundsWidened ==
    PlaybackEntered =>
        /\ bounds[1] = bounds[2] => bounds[2] = FAdd(bounds[1], Num(1))
        /\ bounds[3] = bounds[4] => bounds[4] = FAdd(bounds[3], Num(1))
        /\ (\A i \in 1..Len(states) :
              Scaled(states[i], 0, args.scale) = Scaled(states[1], 0, args.scale))
              => bounds[2] = FAdd(Scaled(states[1], 0, args.scale), Num(1))
        /\ (\A i \in 1..Len(states) :
              Scaled(states[i], 1, args.scale) = Scaled(states[1], 1, args.scale))
              => bounds[4] = FAdd(Scaled(states[1], 1, args.scale), Num(1))

\* The bounds with each degenerate axis's max replaced by the double
\* min + 1.0.
WidenedBounds ==
    <<bounds[1], IF bounds[2] = bounds[1] THEN FAdd(bounds[1], Num(1)) ELSE bounds[2],
      bounds[3], IF bounds[4] = bounds[3] THEN FAdd(bounds[3], Num(1)) ELSE bounds[4]>>

\* What the bounds are once computed: the plain extent of every state on
\* each axis, skipped states included; and every state projects under them
\* as it would under the widened bounds.
BoundsAreExtent ==
    /\ (frames # <<>> \/ pc \in {"loop", "draw", "sleep", "done"}) => PlaybackEntered
    /\ PlaybackEntered =>
          /\ Len(bounds) = 4
          /\ IsExtentOf(bounds[1], bounds[2], 0)
          /\ IsExtentOf(bounds[3], bounds[4], 1)
          /\ \A i \in 1..Len(states) :
               LET x == Scaled(states[i], 0, args.scale)
                   y == Scaled(states[i], 1, args.scale)
               IN  project_point(x, y, bounds, width, height)
                     = project_point(x, y, WidenedBounds, width, height)

\* C11 (amended): the bounds are the per-axis min and max of the scaled
\* first two coordinates over every state of the full trace, computed before
\* the first frame and never changed afterwards; on an axis where min
\* equals max they keep max = min, and the widening to the double
\* min + 1.0 is made by project_point on its own copy at each projection.
C11_BoundsRawAndFixed ==
    /\ []BoundsAreExtent
    /\ [][bounds # <<>> => bounds' = bounds]_vars

\* A finished run with stride 2 whose greatest x comes only from a skipped
\* state and whose vertical axis is degenerate and kept unwidened.
C11_Witness ==
    /\ pc = "done"
    /\ args.skip = 2
    /\ Len(states) = 3
    /\ Scaled(states[2], 0, args.scale) = bounds[2]
    /\ Scaled(states[1], 0, args.scale) # bounds[2]
    /\ Scaled(states[3], 0, args.scale) # bounds[2]
    /\ bounds[3] = bounds[4]
    /\ frames # <<>>

\* ------------------------------------------------------------------------
\* C12
\* ------------------------------------------------------------------------
\* The mask is a width x height grid and, when the loop is about to take
\* its first state, all false.
TrailStartsEmpty ==
    PlaybackEntered =>
        /\ DOMAIN trail = 0..(height - 1)
        /\ \A j \in DOMAIN trail : DOMAIN trail[j] = 0..(width - 1)
        /\ (pc = "loop" /\ idx = 0) => TrailCells = {}

\* One step of the run: no cell goes from true to false, the only cell
\* that may turn true is the one just projected, and a step that projects
\* onto a cell already true leaves the mask as it is.
TrailGrows ==
    PlaybackEntered =>
        /\ \A c \in Cells : trail[c[2]][c[1]] => trail'[c[2]][c[1]]
        /\ \A c \in Cells : (trail'[c[2]][c[1]] /\ ~trail[c[2]][c[1]]) => At(c) = pos'
        /\ \A c \in Cells : (At(c) = pos' /\ trail[c[2]][c[1]]) => trail' = trail

\* C12: the trail mask is all false when playback starts and only grows
\* along the run: a true cell stays true in every later step, marking a
\* true cell again changes nothing, and the mask is never reset.
C12_TrailMonotone ==
    /\ []TrailStartsEmpty
    /\ [][TrailGrows]_vars

\* A finished animated run that marked at least two cells and projected
\* more states than it marked cells, so that some cell was marked again.
C12_Witness ==
    /\ pc = "done"
    /\ ~args.static_only
    /\ Cardinality(TrailCells) >= 2
    /\ Len(frames) > Cardinality(TrailCells)

\* ------------------------------------------------------------------------
\* C13
\* ------------------------------------------------------------------------
\* ascii_run has chosen the surface geometry.
GeometryChosen == pc \notin {"load", "setup"} /\ ~LoadFailed

\* C13 (as claimed): the surface is no wider than max_width and the
\* display's columns and no taller than max_height and the display's rows.
C13_WithinDisplay ==
    GeometryChosen =>
        /\ width <= args.max_width
        /\ height <= args.max_height
        /\ width <= args.term_cols
        /\ height <= args.term_rows

\* The rows the source allows the surface: the display's rows less two,
\* and never fewer than four.
RowAllowance == IF args.term_rows - 2 > 4 THEN args.term_rows - 2 ELSE 4

\* The chosen geometry: the caps, the columns, and the row allowance; each
\* frame is drawn with it.
GeometryCapped ==
    GeometryChosen =>
        /\ width <= args.max_width
        /\ width <= args.term_cols
        /\ width \in {args.max_width, args.term_cols}
        /\ height <= args.max_height
        /\ height <= RowAllowance
        /\ height \in {args.max_height, RowAllowance}
        /\ args.term_rows >= 6 => height <= args.term_rows - 2
        /\ \A k \in 1..Len(frames) : frames[k].width = width /\ frames[k].height = height

\* C13 (amended): width <= max_width and width <= display columns;
\* height <= max_height and height <= max(4, display rows - 2), which is
\* within the display's rows when it has at least 6 rows and may exceed
\* them (up to 4) on a display of fewer than 4 rows; once chosen the
\* geometry stays fixed for the whole run.
C13_GeometryCappedAndFixed ==
    /\ []GeometryCapped
    /\ [][GeometryChosen => (width' = width /\ height' = height)]_vars

\* A finished run on a display of 3 rows whose surface is 4 rows tall, and
\* as wide as the display because max_width is larger.
C13_Witness ==
    /\ pc = "done"
    /\ frames # <<>>
    /\ height > args.term_rows
    /\ height = 4
    /\ width = args.term_cols
    /\ width < args.max_width

\* ------------------------------------------------------------------------
\* C14
\* ------------------------------------------------------------------------
\* The cell g is true in the mask tr.
Marked(tr, g) == tr[IntValue(g[2])][IntValue(g[1])]

\* C14: on a surface of at least one cell each way, every sampled state
\* that projects lands inside the surface, so the driver's guard rejects
\* nothing: the cell just projected is in range and true in the mask as
\* soon as the loop has passed the guard, and in every frame of an animated
\* run the cursor's cell is in range and already true in the frame's trail.
C14_CursorInsideAndMarked ==
    (PlaybackEntered /\ width >= 1 /\ height >= 1) =>
        /\ \A i \in Multiples(args.skip, Len(states)) :
             LET p == ProjectionOf(i) IN p.ok => InSurface(<<p.gx, p.gy>>)
        /\ pc \in {"draw", "sleep"} =>
             /\ InSurface(pos)
             /\ Marked(trail, pos)
        /\ ~args.static_only =>
             \A k \in 1..Len(frames) :
                /\ InSurface(frames[k].turtle_pos)
                /\ Marked(frames[k].trail, frames[k].turtle_pos)

\* A finished animated run of two frames on a surface wider and taller
\* than one cell, whose last frame has the cursor in the last column and
\* the top row, marked in that frame's trail.
C14_Witness ==
    /\ pc = "done"
    /\ ~args.static_only
    /\ width > 1
    /\ height > 1
    /\ Len(frames) = 2
    /\ frames[2].turtle_pos = At(<<width - 1, 0>>)
    /\ frames[2].trail[0][width - 1]
    /\ frames[1].turtle_pos # frames[2].turtle_pos

====
